---- MODULE Spec2Model ----
(***************************************************************************)
(* A model of car-wash.py: the Washer, ArrivalGenerator and AverageTracker *)
(* classes, the tick loop of simulation() and the batch loop of            *)
(* ten_thousand_runs().                                                    *)
(*                                                                         *)
(* Probabilities and the values of random.random() are rationals with the  *)
(* common denominator ProbDen, held as their numerators.  A quotient       *)
(* sum_ / count is held as the fraction in lowest terms.                   *)
(***************************************************************************)
EXTENDS Integers, Sequences, FiniteSets, TLC

\* ---------------------------------------------------------------- bounds
\* wash_time ranges over -1 .. MaxWashTime (and 100, the value of the cell
\* at line 70 and of the end-to-end example).
MaxWashTime == 3
\* simulation_time ranges over -1 .. MaxTime.
MaxTime == 4
\* prob ranges over -1/ProbDen .. (ProbDen+1)/ProbDen, a draw over 0 .. (ProbDen-1)/ProbDen.
ProbDen == 4
\* The batch loop of ten_thousand_runs, range(10000), cut to range(NumberOfRuns).
NumberOfRuns == 2
\* simulation_time of a run that is made twice ranges over -1 .. MaxReplayTime.
MaxReplayTime == 3
\* Calls made on a Washer or an ArrivalGenerator on its own.
MaxCalls == 8
\* Values sent to an AverageTracker on its own.
MaxValues == 4
\* Values sent to an AverageTracker on its own range over -1 .. MaxVal.
MaxVal == 2

WashTimes == (-1 .. MaxWashTime) \cup {100}
SimulationTimes == -1 .. MaxTime
Probs == -1 .. (ProbDen + 1)
\* random.random() is uniform over [0, 1): 0 is possible, 1 is not.
Draws == 0 .. (ProbDen - 1)
Vals == -1 .. MaxVal

VARIABLES
    \* the call under way
    caller,            \* "simulation": one call of simulation; "ten_thousand_runs": the batch
    prob,              \* simulation's parameters
    simulation_time,
    wash_time,
    pc,                \* the statement about to run
    \* simulation's locals
    ws,                \* the Washer
    arg,               \* the ArrivalGenerator
    avg_wash_time,     \* the AverageTracker
    wash_deque,        \* the deque, leftmost element first
    range_next,        \* the next value of range(simulation_time)
    current_second,    \* the loop variable (-1: not bound yet)
    result,            \* how the last call of simulation ended
    \* ten_thousand_runs' locals
    run,               \* calls of simulation made by the batch loop
    counts,
    averages,
    \* history of the run under way
    arrivals,          \* timestamps enqueued, in order
    dispatched,        \* timestamps dequeued, in order
    waits,             \* values sent to the tracker, in order
    returned,          \* what each call of simulation of the batch returned, in order
    \* a run made twice over the same draws
    phase,             \* 0: no such run; 1: the first call; 2: the second call
    draws,             \* the values random.random() gave the call under way, in order
    trace,             \* washer, queue and tracker at the end of each tick of the call
    first,             \* draws, trace and result of the first call
    \* a Washer, an ArrivalGenerator and an AverageTracker on their own
    w, w_op, w_calls, w_started, w_since,
    a, a_draw, a_ret, a_calls,
    at, at_op, at_ret, at_number, at_submitted,
    at_raised          \* a call of at.average() has ended in an exception

simVars == <<caller, prob, simulation_time, wash_time, pc, ws, arg, avg_wash_time,
             wash_deque, range_next, current_second, result, run, counts, averages,
             arrivals, dispatched, waits, returned>>
replayVars == <<phase, draws, trace, first>>
washerVars == <<w, w_op, w_calls, w_started, w_since>>
arrivalVars == <<a, a_draw, a_ret, a_calls>>
trackerVars == <<at, at_op, at_ret, at_number, at_submitted, at_raised>>
vars == <<simVars, replayVars, washerVars, arrivalVars, trackerVars>>

\* ---------------------------------------------------------------- Washer
\* A constructor that sets the countdown going.
Washer_busy(wt) == [wash_time |-> wt, time_until_done |-> wt]

Washer(wt) == [wash_time |-> wt, time_until_done |-> 0]

\* is_busy with `>= 0` for `!= 0`: an idle washer counts as busy.
is_busy_nonneg(self) == IF self.time_until_done >= 0 THEN TRUE ELSE FALSE

\* is_busy with `> 1` for `!= 0`: the last second of a wash counts as idle.
is_busy_last_second(self) == IF self.time_until_done > 1 THEN TRUE ELSE FALSE

is_busy(self) == IF self.time_until_done # 0 THEN TRUE ELSE FALSE

\* start_washing without its test: every call sets the countdown again.
start_washing_unguarded(self) ==
    [self EXCEPT !.time_until_done = self.wash_time]

start_washing(self) ==
    IF is_busy(self) = FALSE
    THEN [self EXCEPT !.time_until_done = self.wash_time]
    ELSE self

\* one_second without its test: the countdown runs on below 0.
one_second_unguarded(self) ==
    [self EXCEPT !.time_until_done = self.time_until_done - 1]

\* one_second with `> 1` for `!= 0`: the countdown stops at 1.
one_second_floor(self) ==
    IF self.time_until_done > 1
    THEN [self EXCEPT !.time_until_done = self.time_until_done - 1]
    ELSE self

one_second(self) ==
    IF self.time_until_done # 0
    THEN [self EXCEPT !.time_until_done = self.time_until_done - 1]
    ELSE self

\* ------------------------------------------------------ ArrivalGenerator
ArrivalGenerator(p) == [probability |-> p]

\* `while self.probability >= random.random(): return True`: the body returns
\* on the first pass; when the test fails the method falls off its end and
\* returns None.  r is the value random.random() gave.
query(self, r) == IF self.probability >= r THEN "True" ELSE "None"

\* -------------------------------------------------------- AverageTracker
AverageTracker == [count |-> 0, sum_ |-> 0]

\* next_value with `=` for `+=`.
next_value_assign(self, val) == [count |-> self.count + 1, sum_ |-> val]

next_value(self, val) == [count |-> self.count + 1, sum_ |-> self.sum_ + val]

Abs(n) == IF n < 0 THEN -n ELSE n

RECURSIVE Gcd(_, _)
Gcd(m, n) == IF n = 0 THEN m ELSE Gcd(n, m % n)

\* x / y of Python for integers x and y: the quotient (here as the fraction in
\* lowest terms with a positive denominator), or ZeroDivisionError.
TrueDiv(x, y) ==
    IF y = 0
    THEN [exc |-> "ZeroDivisionError", num |-> 0, den |-> 0]
    ELSE LET g == Gcd(Abs(x), Abs(y))
             s == IF y < 0 THEN -1 ELSE 1
         IN  [exc |-> "none", num |-> (s * x) \div g, den |-> (s * y) \div g]

\* average with a value of 0 for an empty tracker in place of the fault.
average_or_zero(self) ==
    IF self.count = 0 THEN TrueDiv(0, 1) ELSE TrueDiv(self.sum_, self.count)

average(self) == TrueDiv(self.sum_, self.count)

number_of_values(self) == self.count

\* ----------------------------------------------------------------- deque
\* deque.append: the new element goes to the right end, where pop takes from.
append_right(q, x) == q \o <<x>>

appendleft(q, x) == <<x>> \o q

\* deque.pop() removes and returns the rightmost element.
pop_value(q) == q[Len(q)]
\* wash_deque[-1] for wash_deque.pop(): the element read stays in the deque.
pop_rest_peek(q) == q

pop_rest(q) == SubSeq(q, 1, Len(q) - 1)

\* ----------------------------------------------------------------- range
\* range(stop) with `next` values handed out has another one.
range_more_inclusive(next, stop) == next <= stop

range_more(next, stop) == next < stop

\* ------------------------------------------------------------ simulation
NoResult == [kind |-> "none", count |-> 0, avg |-> TrueDiv(0, 1)]

\* The deque made once, outside the function, and shared by the calls.
SimulationEntry_shared_deque ==
    /\ pc = "call"
    /\ ws' = Washer(wash_time)
    /\ arg' = ArrivalGenerator(prob)
    /\ avg_wash_time' = AverageTracker
    /\ UNCHANGED wash_deque
    /\ range_next' = 0
    /\ current_second' = -1
    /\ arrivals' = <<>>
    /\ dispatched' = <<>>
    /\ waits' = <<>>
    /\ result' = NoResult
    /\ pc' = "for"
    /\ UNCHANGED <<caller, prob, simulation_time, wash_time, run, counts, averages, returned>>
    /\ UNCHANGED <<washerVars, arrivalVars, trackerVars>>

\* Lines 243-246: the four objects are made anew by every call.
SimulationEntry ==
    /\ pc = "call"
    /\ ws' = Washer(wash_time)
    /\ arg' = ArrivalGenerator(prob)
    /\ avg_wash_time' = AverageTracker
    /\ wash_deque' = <<>>
    /\ range_next' = 0
    /\ current_second' = -1
    /\ arrivals' = <<>>
    /\ dispatched' = <<>>
    /\ waits' = <<>>
    /\ result' = NoResult
    /\ pc' = "for"
    /\ UNCHANGED <<caller, prob, simulation_time, wash_time, run, counts, averages, returned>>
    /\ UNCHANGED <<washerVars, arrivalVars, trackerVars>>

\* Line 247: range(simulation_time) yields 0 .. simulation_time-1, nothing
\* when simulation_time <= 0.
ForNext ==
    /\ pc = "for"
    /\ IF range_more(range_next, simulation_time)
       THEN /\ current_second' = range_next
            /\ range_next' = range_next + 1
            /\ pc' = "query"
       ELSE /\ pc' = "average"
            /\ UNCHANGED <<current_second, range_next>>
    /\ UNCHANGED <<caller, prob, simulation_time, wash_time, ws, arg, avg_wash_time,
                   wash_deque, result, run, counts, averages, arrivals, dispatched,
                   waits, returned>>
    /\ UNCHANGED <<washerVars, arrivalVars, trackerVars>>

\* Lines 248-249, random.random() giving r.
ArrivalWith(r) ==
    /\ pc = "query"
    /\ IF query(arg, r) = "True"
       THEN /\ wash_deque' = appendleft(wash_deque, current_second)
            /\ arrivals' = Append(arrivals, current_second)
       ELSE UNCHANGED <<wash_deque, arrivals>>
    /\ pc' = "dispatch"
    /\ UNCHANGED <<caller, prob, simulation_time, wash_time, ws, arg, avg_wash_time,
                   range_next, current_second, result, run, counts, averages,
                   dispatched, waits, returned>>
    /\ UNCHANGED <<washerVars, arrivalVars, trackerVars>>

\* Lines 248-249.
Arrival == \E r \in Draws : ArrivalWith(r)

\* The wait taken as timestamp - current_second.
Dispatch_wait_reversed ==
    /\ pc = "dispatch"
    /\ IF is_busy(ws) = FALSE /\ Len(wash_deque) # 0
       THEN LET timestamp == pop_value(wash_deque)
            IN  /\ wash_deque' = pop_rest(wash_deque)
                /\ avg_wash_time' = next_value(avg_wash_time, timestamp - current_second)
                /\ ws' = start_washing(ws)
                /\ dispatched' = Append(dispatched, timestamp)
                /\ waits' = Append(waits, timestamp - current_second)
       ELSE UNCHANGED <<wash_deque, avg_wash_time, ws, dispatched, waits>>
    /\ pc' = "one_second"
    /\ UNCHANGED <<caller, prob, simulation_time, wash_time, arg, range_next,
                   current_second, result, run, counts, averages, arrivals, returned>>
    /\ UNCHANGED <<washerVars, arrivalVars, trackerVars>>

\* Lines 250-253.
Dispatch ==
    /\ pc = "dispatch"
    /\ IF is_busy(ws) = FALSE /\ Len(wash_deque) # 0
       THEN LET timestamp == pop_value(wash_deque)
            IN  /\ wash_deque' = pop_rest(wash_deque)
                /\ avg_wash_time' = next_value(avg_wash_time, current_second - timestamp)
                /\ ws' = start_washing(ws)
                /\ dispatched' = Append(dispatched, timestamp)
                /\ waits' = Append(waits, current_second - timestamp)
       ELSE UNCHANGED <<wash_deque, avg_wash_time, ws, dispatched, waits>>
    /\ pc' = "one_second"
    /\ UNCHANGED <<caller, prob, simulation_time, wash_time, arg, range_next,
                   current_second, result, run, counts, averages, arrivals, returned>>
    /\ UNCHANGED <<washerVars, arrivalVars, trackerVars>>

\* Line 254.
OneSecond ==
    /\ pc = "one_second"
    /\ ws' = one_second(ws)
    /\ pc' = "for"
    /\ UNCHANGED <<caller, prob, simulation_time, wash_time, arg, avg_wash_time,
                   wash_deque, range_next, current_second, result, run, counts,
                   averages, arrivals, dispatched, waits, returned>>
    /\ UNCHANGED <<washerVars, arrivalVars, trackerVars>>

\* Lines 255-258: average() is called first; its ZeroDivisionError is caught
\* nowhere, in simulation or in ten_thousand_runs, and ends the program.
Report ==
    /\ pc = "average"
    /\ LET avg_time == average(avg_wash_time)
           count == number_of_values(avg_wash_time)
       IN  IF avg_time.exc # "none"
           THEN /\ result' = [kind |-> avg_time.exc, count |-> 0, avg |-> avg_time]
                /\ pc' = "raised"
                /\ UNCHANGED returned
           ELSE /\ result' = [kind |-> "return", count |-> count, avg |-> avg_time]
                /\ pc' = IF caller = "ten_thousand_runs" THEN "append" ELSE "returned"
                /\ returned' = Append(returned, <<count, avg_time>>)
    /\ UNCHANGED <<caller, prob, simulation_time, wash_time, ws, arg, avg_wash_time,
                   wash_deque, range_next, current_second, run, counts, averages,
                   arrivals, dispatched, waits>>
    /\ UNCHANGED <<washerVars, arrivalVars, trackerVars>>

\* ----------------------------------------------------- ten_thousand_runs
\* Lines 283-284 and 287.
BatchFor ==
    /\ pc = "batch_for"
    /\ IF run < NumberOfRuns
       THEN /\ run' = run + 1
            /\ pc' = "call"
       ELSE /\ pc' = "batch_returned"
            /\ UNCHANGED run
    /\ UNCHANGED <<caller, prob, simulation_time, wash_time, ws, arg, avg_wash_time,
                   wash_deque, range_next, current_second, result, counts, averages,
                   arrivals, dispatched, waits, returned>>
    /\ UNCHANGED <<washerVars, arrivalVars, trackerVars>>

\* The count put in with insert(0, count).
BatchAppend_insert ==
    /\ pc = "append"
    /\ counts' = <<result.count>> \o counts
    /\ averages' = Append(averages, result.avg)
    /\ pc' = "batch_for"
    /\ UNCHANGED <<caller, prob, simulation_time, wash_time, ws, arg, avg_wash_time,
                   wash_deque, range_next, current_second, result, run,
                   arrivals, dispatched, waits, returned>>
    /\ UNCHANGED <<washerVars, arrivalVars, trackerVars>>

\* Lines 284-286: count, avg_time = simulation(...); the two appends.
BatchAppend ==
    /\ pc = "append"
    /\ counts' = Append(counts, result.count)
    /\ averages' = Append(averages, result.avg)
    /\ pc' = "batch_for"
    /\ UNCHANGED <<caller, prob, simulation_time, wash_time, ws, arg, avg_wash_time,
                   wash_deque, range_next, current_second, result, run,
                   arrivals, dispatched, waits, returned>>
    /\ UNCHANGED <<washerVars, arrivalVars, trackerVars>>

\* ------------------------------------------------- objects on their own
WasherIdle ==
    /\ w = Washer(0)
    /\ w_op = "none"
    /\ w_calls = 0
    /\ w_started = FALSE
    /\ w_since = 0

ArrivalIdle ==
    /\ a = ArrivalGenerator(0)
    /\ a_draw = 0
    /\ a_ret = "none"
    /\ a_calls = 0

TrackerIdle ==
    /\ at = AverageTracker
    /\ at_op = "none"
    /\ at_ret = NoResult.avg
    /\ at_number = 0
    /\ at_submitted = <<>>
    /\ at_raised = FALSE

NoFirst == [draws |-> <<>>, trace |-> <<>>, result |-> NoResult]

ReplayIdle ==
    /\ phase = 0
    /\ draws = <<>>
    /\ trace = <<>>
    /\ first = NoFirst

SimIdle ==
    /\ ReplayIdle
    /\ caller = "none"
    /\ prob = 0
    /\ simulation_time = 0
    /\ wash_time = 0
    /\ pc = "none"
    /\ ws = Washer(0)
    /\ arg = ArrivalGenerator(0)
    /\ avg_wash_time = AverageTracker
    /\ wash_deque = <<>>
    /\ range_next = 0
    /\ current_second = -1
    /\ result = NoResult
    /\ run = 0
    /\ counts = <<>>
    /\ averages = <<>>
    /\ arrivals = <<>>
    /\ dispatched = <<>>
    /\ waits = <<>>
    /\ returned = <<>>

\* --------------------------------------------- simulation and the batch
\* simulation is a module-level function: any arguments can reach it.  The
\* batch calls it with a probability strictly between 0 and 1 (0.004) and
\* positive times (6000 and 150), here any such within the bounds.
Init ==
    /\ caller \in {"simulation", "ten_thousand_runs"}
    /\ IF caller = "simulation"
       THEN /\ prob \in Probs
            /\ simulation_time \in SimulationTimes
            /\ wash_time \in WashTimes
            /\ pc = "call"
       ELSE /\ prob \in 1 .. (ProbDen - 1)
            /\ simulation_time \in 1 .. MaxTime
            /\ wash_time \in 1 .. MaxWashTime
            /\ pc = "batch_for"
    /\ ws = Washer(0)
    /\ arg = ArrivalGenerator(0)
    /\ avg_wash_time = AverageTracker
    /\ wash_deque = <<>>
    /\ range_next = 0
    /\ current_second = -1
    /\ result = NoResult
    /\ run = 0
    /\ counts = <<>>
    /\ averages = <<>>
    /\ arrivals = <<>>
    /\ dispatched = <<>>
    /\ waits = <<>>
    /\ returned = <<>>
    /\ ReplayIdle
    /\ WasherIdle
    /\ ArrivalIdle
    /\ TrackerIdle

Next ==
    \/ SimulationEntry /\ UNCHANGED replayVars
    \/ ForNext /\ UNCHANGED replayVars
    \/ Arrival /\ UNCHANGED replayVars
    \/ Dispatch /\ UNCHANGED replayVars
    \/ OneSecond /\ UNCHANGED replayVars
    \/ Report /\ UNCHANGED replayVars
    \/ BatchFor /\ UNCHANGED replayVars
    \/ BatchAppend /\ UNCHANGED replayVars

Spec == Init /\ [][Next]_vars

\* ------------------------------------------ one run made a second time
\* simulation(prob, simulation_time, wash_time) is called, and once it has
\* returned or raised it is called again with the same arguments in the same
\* process, random.random() giving the second call the values it gave the
\* first (the generator seeded alike before each call).
InitReplay ==
    /\ caller = "replay"
    /\ prob \in Probs
    /\ simulation_time \in -1 .. MaxReplayTime
    /\ wash_time \in WashTimes
    /\ pc = "call"
    /\ ws = Washer(0)
    /\ arg = ArrivalGenerator(0)
    /\ avg_wash_time = AverageTracker
    /\ wash_deque = <<>>
    /\ range_next = 0
    /\ current_second = -1
    /\ result = NoResult
    /\ run = 0
    /\ counts = <<>>
    /\ averages = <<>>
    /\ arrivals = <<>>
    /\ dispatched = <<>>
    /\ waits = <<>>
    /\ returned = <<>>
    /\ phase = 1
    /\ draws = <<>>
    /\ trace = <<>>
    /\ first = NoFirst
    /\ WasherIdle
    /\ ArrivalIdle
    /\ TrackerIdle

\* Lines 248-249: the first call draws freely, the second is given the
\* draws of the first.
ReplayArrival ==
    /\ \E r \in Draws :
          /\ (phase = 2 /\ Len(draws) < Len(first.draws)) =>
                 r = first.draws[Len(draws) + 1]
          /\ ArrivalWith(r)
          /\ draws' = Append(draws, r)
    /\ UNCHANGED <<phase, trace, first>>

\* Line 254, the end of a tick.
ReplayOneSecond ==
    /\ OneSecond
    /\ trace' = Append(trace, [ws |-> ws', wash_deque |-> wash_deque,
                                avg_wash_time |-> avg_wash_time])
    /\ UNCHANGED <<phase, draws, first>>

\* The second call, made after the first has returned or raised.
ReplayAgain ==
    /\ phase = 1
    /\ pc \in {"returned", "raised"}
    /\ first' = [draws |-> draws, trace |-> trace, result |-> result]
    /\ phase' = 2
    /\ draws' = <<>>
    /\ trace' = <<>>
    /\ pc' = "call"
    /\ UNCHANGED <<caller, prob, simulation_time, wash_time, ws, arg, avg_wash_time,
                   wash_deque, range_next, current_second, result, run, counts,
                   averages, arrivals, dispatched, waits, returned>>
    /\ UNCHANGED <<washerVars, arrivalVars, trackerVars>>

NextReplay ==
    \/ SimulationEntry /\ UNCHANGED replayVars
    \/ ForNext /\ UNCHANGED replayVars
    \/ ReplayArrival
    \/ Dispatch /\ UNCHANGED replayVars
    \/ ReplayOneSecond
    \/ Report /\ UNCHANGED replayVars
    \/ ReplayAgain

SpecReplay == InitReplay /\ [][NextReplay]_vars

\* ----------------------------------------------------- a Washer on its own
\* w = Washer(d), then any calls of start_washing and one_second (the cell
\* at lines 70-86 makes such calls).  w_started and w_since count, from the
\* calls alone, the one_second calls since the last start_washing that came
\* when no wash was under way: never started, or wash_time calls have passed.
InitWasher ==
    /\ SimIdle
    /\ ArrivalIdle
    /\ TrackerIdle
    /\ \E d \in WashTimes : w = Washer(d)
    /\ w_op = "init"
    /\ w_calls = 0
    /\ w_started = FALSE
    /\ w_since = 0

WasherStartWashing ==
    /\ w_op # "none"
    /\ w_calls < MaxCalls
    /\ w' = start_washing(w)
    /\ w_op' = "start_washing"
    /\ w_calls' = w_calls + 1
    /\ IF ~w_started \/ w_since >= w.wash_time
       THEN w_started' = TRUE /\ w_since' = 0
       ELSE UNCHANGED <<w_started, w_since>>
    /\ UNCHANGED <<simVars, replayVars, arrivalVars, trackerVars>>

WasherOneSecond ==
    /\ w_op # "none"
    /\ w_calls < MaxCalls
    /\ w' = one_second(w)
    /\ w_op' = "one_second"
    /\ w_calls' = w_calls + 1
    /\ w_since' = IF w_started THEN w_since + 1 ELSE w_since
    /\ UNCHANGED w_started
    /\ UNCHANGED <<simVars, replayVars, arrivalVars, trackerVars>>

NextWasher ==
    \/ WasherStartWashing
    \/ WasherOneSecond

SpecWasher == InitWasher /\ [][NextWasher]_vars

\* ------------------------------------------- an ArrivalGenerator on its own
\* a = ArrivalGenerator(p), then calls of query, each with its own draw.
InitArrival ==
    /\ SimIdle
    /\ WasherIdle
    /\ TrackerIdle
    /\ \E p \in Probs : a = ArrivalGenerator(p)
    /\ a_draw = 0
    /\ a_ret = "init"
    /\ a_calls = 0

ArrivalQuery ==
    /\ a_ret # "none"
    /\ a_calls < MaxCalls
    /\ \E r \in Draws :
          /\ a_draw' = r
          /\ a_ret' = query(a, r)
    /\ a_calls' = a_calls + 1
    /\ UNCHANGED a
    /\ UNCHANGED <<simVars, replayVars, washerVars, trackerVars>>

NextArrival == ArrivalQuery

SpecArrival == InitArrival /\ [][NextArrival]_vars

\* --------------------------------------------- an AverageTracker on its own
\* at = AverageTracker(), then calls of next_value, average and
\* number_of_values (the cell at lines 187-200).
InitTracker ==
    /\ SimIdle
    /\ WasherIdle
    /\ ArrivalIdle
    /\ at = AverageTracker
    /\ at_op = "init"
    /\ at_ret = NoResult.avg
    /\ at_number = 0
    /\ at_submitted = <<>>
    /\ at_raised = FALSE

TrackerNextValue ==
    /\ at_op # "none"
    /\ Len(at_submitted) < MaxValues
    /\ \E val \in Vals :
          /\ at' = next_value(at, val)
          /\ at_submitted' = Append(at_submitted, val)
    /\ at_op' = "next_value"
    /\ UNCHANGED <<at_ret, at_number, at_raised>>
    /\ UNCHANGED <<simVars, replayVars, washerVars, arrivalVars>>

TrackerAverage ==
    /\ at_op # "none"
    /\ at_ret' = average(at)
    /\ at_op' = "average"
    /\ at_raised' = (at_raised \/ average(at).exc # "none")
    /\ UNCHANGED <<at, at_number, at_submitted>>
    /\ UNCHANGED <<simVars, replayVars, washerVars, arrivalVars>>

TrackerNumberOfValues ==
    /\ at_op # "none"
    /\ at_number' = number_of_values(at)
    /\ at_op' = "number_of_values"
    /\ UNCHANGED <<at, at_ret, at_submitted, at_raised>>
    /\ UNCHANGED <<simVars, replayVars, washerVars, arrivalVars>>

NextTracker ==
    \/ TrackerNextValue
    \/ TrackerAverage
    \/ TrackerNumberOfValues

SpecTracker == InitTracker /\ [][NextTracker]_vars

\* ================================================================ claims

\* ---------------------------------------------------------------- C1
\* C1: for wash_time d > 0, a fresh Washer is not busy; after start_washing
\* it is busy after each of the first d-1 one_second calls, idle from the
\* d-th on, and stays idle until start_washing is called again.  With
\* w_since the one_second calls since that start_washing: the washer is busy
\* exactly when a wash was started and fewer than d calls followed.
C1_BusyForWashTimeSeconds ==
    w.wash_time > 0 =>
        /\ (w_op = "init" => ~is_busy(w))
        /\ (is_busy(w) <=> (w_started /\ w_since < w.wash_time))

\* The d-th one_second call after a start_washing has just been made, d > 1.
C1_Witness ==
    /\ w.wash_time > 1
    /\ w_started
    /\ w_op = "one_second"
    /\ w_since = w.wash_time
    /\ ~is_busy(w)

\* ---------------------------------------------------------------- C5
\* C5: start_washing called while time_until_done # 0 changes neither
\* time_until_done nor wash_time; called while time_until_done = 0 it sets
\* time_until_done to wash_time.
C5_StartWashingFrame ==
    [][(w_op' = "start_washing" /\ w_calls' = w_calls + 1) =>
          IF w.time_until_done # 0
          THEN w' = w
          ELSE w' = [wash_time |-> w.wash_time, time_until_done |-> w.wash_time]]_vars

\* start_washing was the last call, made part-way through a wash.
C5_Witness ==
    /\ w_op = "start_washing"
    /\ w_started
    /\ w_since > 0
    /\ w_since < w.wash_time
    /\ w.time_until_done = w.wash_time - w_since

\* ---------------------------------------------------------------- C6
\* C6: with probability 0 query returns false for every draw of [0, 1),
\* the draw 0 included; with probability 1 it returns true for every draw.
C6_QueryAtExtremes ==
    a_calls > 0 =>
        /\ (a.probability = 0 => a_ret # "True")
        /\ (a.probability = ProbDen => a_ret = "True")

\* The arguments the interface of simulation rules out: a probability
\* outside [0, 1], a simulation_time <= 0, a wash_time <= 0.
InvalidParameters ==
    \/ prob < 0
    \/ prob > ProbDen
    \/ simulation_time <= 0
    \/ wash_time <= 0

\* ---------------------------------------------------------------- C2
\* C2: a run in which no customer is dispatched completes and returns
\* servedCount = 0 with a defined no-data average; it does not end in an
\* arithmetic fault.  Stated for valid arguments.
C2_NoDispatchRunReturns ==
    (~InvalidParameters /\ result.kind # "none" /\ dispatched = <<>>) =>
        (result.kind = "return" /\ result.count = 0)

\* ---------------------------------------------------------------- C3
\* C3: the dispatch step removes the oldest timestamp of the queue: the
\* timestamps dispatched are the first arrivals, in arrival order, strictly
\* increasing, and every customer still queued arrived after every customer
\* dispatched.
C3_DispatchOldestFirst ==
    /\ Len(dispatched) <= Len(arrivals)
    /\ \A i \in DOMAIN dispatched : dispatched[i] = arrivals[i]
    /\ \A i, j \in DOMAIN dispatched : i < j => dispatched[i] < dispatched[j]
    /\ \A i \in DOMAIN dispatched : \A j \in DOMAIN wash_deque :
          dispatched[i] < wash_deque[j]

\* A customer who waited has just been taken from a queue that held a later
\* arrival as well.
C3_Witness ==
    /\ pc = "one_second"
    /\ Len(dispatched) >= 2
    /\ dispatched[Len(dispatched)] < current_second
    /\ waits[Len(waits)] = current_second - dispatched[Len(dispatched)]
    /\ Len(wash_deque) >= 1

\* ---------------------------------------------------------------- C4
\* C4: a customer who arrives at tick t while the washer is idle and the
\* queue is empty is dispatched in tick t with a recorded wait of 0; and
\* simulation(prob=1, simulation_time=1, wash_time=100) has one arrival, at
\* tick 0, and returns servedCount = 1 with average wait 0.
C4_SameTickDispatch ==
    /\ [][(pc = "dispatch" /\ ws.time_until_done = 0
                           /\ wash_deque = <<current_second>>) =>
             /\ wash_deque' = <<>>
             /\ dispatched' = Append(dispatched, current_second)
             /\ waits' = Append(waits, 0)
             /\ avg_wash_time'.count = avg_wash_time.count + 1
             /\ avg_wash_time'.sum_ = avg_wash_time.sum_]_vars
    /\ []((/\ caller = "simulation"
           /\ prob = ProbDen
           /\ simulation_time = 1
           /\ wash_time = 100
           /\ pc \notin {"call", "for", "query", "dispatch", "one_second", "average"}) =>
             /\ arrivals = <<0>>
             /\ result.kind = "return"
             /\ result.count = 1
             /\ result.avg.num = 0
             /\ result.avg.den = 1)

\* simulation(1, 1, 100) has returned after its one dispatch, at tick 0.
C4_Witness ==
    /\ caller = "simulation"
    /\ prob = ProbDen
    /\ simulation_time = 1
    /\ wash_time = 100
    /\ pc = "returned"
    /\ dispatched = <<0>>
    /\ waits = <<0>>

\* ---------------------------------------------------------------- C7
\* C7: a run makes exactly simulation_time iterations, for the ticks
\* 0 .. simulation_time-1 (simulation_time >= 0), and then ends without a
\* drain: once the loop is left the queue, the tracker and the washer are
\* not touched again, so the customers still queued are never recorded and
\* a wash under way is not run to its end.
AfterLoop == {"average", "append", "returned", "raised"}

C7_NoDrain ==
    /\ []((pc \in AfterLoop /\ simulation_time >= 0) =>
             /\ range_next = simulation_time
             /\ (simulation_time > 0 => current_second = simulation_time - 1)
             /\ avg_wash_time.count = Len(dispatched)
             /\ Len(arrivals) = Len(dispatched) + Len(wash_deque))
    /\ [][(pc \in AfterLoop) =>
             UNCHANGED <<wash_deque, avg_wash_time, ws, dispatched, waits>>]_vars

\* A run has returned with a customer still queued and a wash under way.
C7_Witness ==
    /\ pc = "returned"
    /\ range_next = simulation_time
    /\ Len(wash_deque) > 0
    /\ ws.time_until_done > 0
    /\ result.count < Len(arrivals)

\* ---------------------------------------------------------------- C8
\* C8: after k completed runs of the batch, counts and averages have length
\* k and counts[i], averages[i] are what the i-th call of simulation
\* returned; each call starts with an idle washer, an empty queue and an
\* empty tracker, so what it returns counts its own dispatches only; when
\* the batch returns, both lists have length NumberOfRuns.
RECURSIVE SumSeq(_)
SumSeq(q) == IF q = <<>> THEN 0 ELSE q[1] + SumSeq(Tail(q))

C8_BatchAligned ==
    caller = "ten_thousand_runs" =>
        /\ Len(counts) = Len(averages)
        /\ (pc = "batch_for" => Len(counts) = run)
        /\ (pc = "append" => Len(counts) = run - 1 /\ Len(returned) = run)
        /\ (pc = "batch_returned" =>
               Len(counts) = NumberOfRuns /\ Len(averages) = NumberOfRuns)
        /\ \A i \in DOMAIN counts :
               counts[i] = returned[i][1] /\ averages[i] = returned[i][2]
        /\ (pc = "for" /\ range_next = 0 =>
               /\ ws.time_until_done = 0
               /\ wash_deque = <<>>
               /\ avg_wash_time.count = 0
               /\ avg_wash_time.sum_ = 0)
        /\ (pc = "append" =>
               /\ returned[run][1] = Len(dispatched)
               /\ returned[run][2].num * Len(waits) = returned[run][2].den * SumSeq(waits))

\* The batch has returned, its runs having served different numbers.
C8_Witness ==
    /\ caller = "ten_thousand_runs"
    /\ pc = "batch_returned"
    /\ Len(counts) = NumberOfRuns
    /\ counts[1] # counts[2]
    /\ averages[1] # averages[2]

\* ---------------------------------------------------------------- C9
\* C9: after any calls of next_value, count is the number of calls and sum_
\* the sum of the values sent; number_of_values returns count, and with
\* count > 0 average returns sum_ / count, the mean of the values sent.
C9_TrackerCountsAndSums ==
    /\ at.count = Len(at_submitted)
    /\ at.sum_ = SumSeq(at_submitted)
    /\ (at_op = "number_of_values" => at_number = Len(at_submitted))
    /\ (at_op = "average" /\ Len(at_submitted) > 0 =>
           /\ at_ret.exc = "none"
           /\ at_ret.den > 0
           /\ at_ret.num * Len(at_submitted) = at_ret.den * SumSeq(at_submitted))

\* average has just returned a mean that is no whole number.
C9_Witness ==
    /\ at_op = "average"
    /\ Len(at_submitted) >= 3
    /\ at_ret.exc = "none"
    /\ at_ret.den > 1
    /\ at_ret.num # 0

\* --------------------------------------------------------------- C10
\* C10: simulation rejects a probability outside [0, 1], a simulation_time
\* <= 0 and a wash_time <= 0 at entry: with such arguments nothing is
\* built, no tick is processed and nothing is returned.
C10_InvalidParametersRejected ==
    InvalidParameters => pc \notin {"query", "dispatch", "one_second", "returned"}

\* --------------------------------------------------------------- C12
\* C12: average() called while count = 0 ends in a division-by-zero error
\* and leaves count and sum_ as they were, so that a later next_value
\* followed by average() gives the mean of the values sent.
C12_AverageOfNothingRaises ==
    /\ [][(at_op' = "average" /\ at.count = 0) =>
             /\ at_ret'.exc = "ZeroDivisionError"
             /\ at_raised'
             /\ at'.count = at.count
             /\ at'.sum_ = at.sum_]_vars
    /\ []((at_raised /\ at_op = "average" /\ Len(at_submitted) > 0) =>
             /\ at_ret.exc = "none"
             /\ at_ret.den > 0
             /\ at_ret.num * Len(at_submitted) = at_ret.den * SumSeq(at_submitted))

\* After a call of average() that raised, values were sent and average()
\* has returned their mean.
C12_Witness ==
    /\ at_raised
    /\ at_op = "average"
    /\ Len(at_submitted) >= 2
    /\ at_ret.exc = "none"
    /\ at_ret.num # 0

\* --------------------------------------------------------------- C13
\* C13: for wash_time d > 0, after any calls of start_washing and
\* one_second, 0 <= time_until_done <= d and is_busy() holds exactly when
\* time_until_done # 0; one_second takes exactly 1 from a positive
\* time_until_done and changes nothing when it is 0.
C13_CountdownInRange ==
    /\ [](w.wash_time > 0 =>
             /\ 0 <= w.time_until_done
             /\ w.time_until_done <= w.wash_time
             /\ (is_busy(w) <=> w.time_until_done # 0))
    /\ [][(w.wash_time > 0 /\ w_op' = "one_second" /\ w_calls' = w_calls + 1) =>
             IF w.time_until_done > 0
             THEN w' = [wash_time |-> w.wash_time,
                        time_until_done |-> w.time_until_done - 1]
             ELSE w' = w]_vars

\* one_second has just been called on a washer that had finished its wash.
C13_Witness ==
    /\ w.wash_time > 1
    /\ w_op = "one_second"
    /\ w_started
    /\ w_since > w.wash_time
    /\ w.time_until_done = 0

\* --------------------------------------------------------------- C14
\* C14: query() returns true exactly when the draw is strictly less than
\* the probability; a draw equal to the probability gives false.
C14_QueryStrictlyLess ==
    a_calls > 0 => (a_ret = "True" <=> a_draw < a.probability)

\* --------------------------------------------------------------- C15
\* C15: within a tick the steps run in the order arrival, dispatch,
\* one_second, with one_second applied once; so for wash_time d >= 1 a wash
\* started at tick t keeps the washer busy at the dispatch step of ticks
\* t+1 .. t+d-1 and idle at tick t+d, two consecutive dispatches are at
\* least d ticks apart, and servedCount <= ceil(simulation_time / d).
\* The tick of the i-th dispatch is its timestamp plus its recorded wait.
DispatchTick(i) == dispatched[i] + waits[i]

C15_TickOrderAndSpacing ==
    /\ [][(pc \in {"query", "dispatch", "one_second"}) =>
             /\ (pc = "query" => pc' = "dispatch" /\ ws' = ws)
             /\ (pc = "dispatch" => pc' = "one_second")
             /\ (pc = "one_second" =>
                    /\ pc' = "for"
                    /\ (wash_time >= 1 =>
                           ws'.time_until_done =
                              IF ws.time_until_done > 0
                              THEN ws.time_until_done - 1
                              ELSE 0))]_vars
    /\ []((wash_time >= 1 /\ pc = "dispatch") =>
             IF dispatched = <<>>
             THEN ws.time_until_done = 0
             ELSE LET t == DispatchTick(Len(dispatched))
                  IN  /\ t < current_second
                      /\ (ws.time_until_done # 0 <=> current_second < t + wash_time))
    /\ [](wash_time >= 1 =>
             /\ \A i \in DOMAIN dispatched :
                   i > 1 => DispatchTick(i) - DispatchTick(i - 1) >= wash_time
             /\ (result.kind = "return" =>
                   (result.count - 1) * wash_time < simulation_time))

\* A run has returned whose second dispatch came exactly wash_time ticks
\* after its first, wash_time >= 2.
C15_Witness ==
    /\ pc = "returned"
    /\ wash_time >= 2
    /\ Len(dispatched) >= 2
    /\ DispatchTick(2) - DispatchTick(1) = wash_time

\* --------------------------------------------------------------- C16
\* C16: the timestamps in the queue are strictly increasing in the order
\* they were enqueued (the leftmost is the newest) and none is above the
\* current tick; at most one is enqueued per tick; every recorded wait,
\* current_second - timestamp, is >= 0.
C16_QueueOrderedWaitsNonNegative ==
    /\ \A i, j \in DOMAIN wash_deque : i < j => wash_deque[i] > wash_deque[j]
    /\ \A i \in DOMAIN wash_deque :
          0 <= wash_deque[i] /\ wash_deque[i] <= current_second
    /\ \A i, j \in DOMAIN arrivals : i < j => arrivals[i] < arrivals[j]
    /\ \A i \in DOMAIN waits : waits[i] >= 0
    /\ avg_wash_time.sum_ >= 0

\* Two customers are queued and the last one dispatched had waited.
C16_Witness ==
    /\ Len(wash_deque) >= 2
    /\ waits # <<>>
    /\ waits[Len(waits)] > 0

\* --------------------------------------------------------------- C17
\* C17: the arrivals so far are the tracker's count plus the queue's
\* length; the servedCount returned is the arrivals less the customers
\* left in the queue; no customer is counted twice.
C17_CustomersConserved ==
    /\ Len(arrivals) = avg_wash_time.count + Len(wash_deque)
    /\ avg_wash_time.count = Len(dispatched)
    /\ Cardinality({dispatched[i] : i \in DOMAIN dispatched}) = Len(dispatched)
    /\ (result.kind = "return" =>
           result.count = Len(arrivals) - Len(wash_deque))

\* A run has returned having served some customers and left one queued.
C17_Witness ==
    /\ pc = "returned"
    /\ result.count >= 2
    /\ Len(wash_deque) >= 1

\* --------------------------------------------------------------- C18
\* C18: for wash_time >= 1, right after the dispatch step of a tick a
\* non-empty queue means a busy washer.
C18_WorkConserving ==
    (wash_time >= 1 /\ pc = "one_second" /\ Len(wash_deque) > 0) =>
        ws.time_until_done # 0

\* A customer has just been dispatched and another stays queued.
C18_Witness ==
    /\ wash_time >= 1
    /\ pc = "one_second"
    /\ Len(wash_deque) > 0
    /\ dispatched # <<>>
    /\ DispatchTick(Len(dispatched)) = current_second
    /\ ws.time_until_done = wash_time

\* --------------------------------------------------------------- C19
\* C19: simulation calls start_washing only on an idle washer: for
\* wash_time >= 1 every dequeue finds time_until_done = 0 and leaves it at
\* wash_time, and the tracker's count goes up exactly in the steps in which
\* the washer goes from idle to busy.
C19_StartWashingOnlyWhenIdle ==
    [][(wash_time >= 1 /\ pc \in {"for", "query", "dispatch", "one_second", "average"}) =>
          /\ (dispatched' # dispatched =>
                 /\ pc = "dispatch"
                 /\ ws.time_until_done = 0
                 /\ ws'.time_until_done = wash_time)
          /\ ((avg_wash_time'.count = avg_wash_time.count + 1) <=>
                 (ws.time_until_done = 0 /\ ws'.time_until_done # 0))
          /\ ((avg_wash_time'.count = avg_wash_time.count) <=>
                 (dispatched' = dispatched))
          /\ avg_wash_time'.count \in {avg_wash_time.count, avg_wash_time.count + 1}]_vars

\* The second wash of a run has just been started, wash_time >= 2.
C19_Witness ==
    /\ wash_time >= 2
    /\ pc = "one_second"
    /\ Len(dispatched) = 2
    /\ avg_wash_time.count = 2
    /\ ws.time_until_done = wash_time

\* --------------------------------------------------------------- C20
\* C20: when a run of the batch serves no customer, its division-by-zero
\* fault leaves ten_thousand_runs: no list is returned, the pairs of the
\* earlier runs are not delivered and no later run is made; the batch
\* returns only if every run served at least one customer.
C20_BatchFaultPropagates ==
    /\ []((caller = "ten_thousand_runs" /\ pc = "raised") =>
             /\ result.kind = "ZeroDivisionError"
             /\ dispatched = <<>>
             /\ Len(counts) = run - 1)
    /\ []((caller = "ten_thousand_runs" /\ pc = "batch_returned") =>
             /\ Len(counts) = NumberOfRuns
             /\ \A i \in DOMAIN counts : counts[i] >= 1)
    /\ [][(caller = "ten_thousand_runs") =>
             /\ ((pc = "average" /\ dispatched = <<>>) => pc' = "raised")
             /\ (pc = "raised" =>
                    pc' = "raised" /\ run' = run /\ counts' = counts
                                  /\ averages' = averages)]_vars

\* The second run of the batch served no one and raised; the pair of the
\* first run is in the lists, which are never returned.
C20_Witness ==
    /\ caller = "ten_thousand_runs"
    /\ pc = "raised"
    /\ run = 2
    /\ Len(counts) = 1
    /\ counts[1] >= 1

\* --------------------------------------------------------------- C11
\* C11: two runs of simulation with the same arguments and the same
\* sequence of draws agree in washer, queue and tracker after every tick
\* and end alike, with the same (servedCount, averageWaitTime): the outcome
\* is a function of the arguments and the draws only.
C11_SameDrawsSameRun ==
    phase = 2 =>
        /\ Len(trace) <= Len(first.trace)
        /\ \A k \in DOMAIN trace : trace[k] = first.trace[k]
        /\ (pc \in {"returned", "raised"} =>
               /\ draws = first.draws
               /\ Len(trace) = Len(first.trace)
               /\ result = first.result)

\* The second of two runs over the same three or more draws has returned,
\* having served two customers and left one queued.
C11_Witness ==
    /\ phase = 2
    /\ pc = "returned"
    /\ Len(first.draws) >= 3
    /\ draws = first.draws
    /\ result.count >= 2
    /\ Len(wash_deque) >= 1

====
